---- MODULE Spec2Model ----
(***************************************************************************)
(* Model of adam-mcp's working-file transaction manager and operation      *)
(* dispatcher.                                                             *)
(*                                                                         *)
(* The process state is the module globals of adam_mcp.working_files (the  *)
(* module tools/document.py imports), the module globals of                *)
(* adam_mcp.core.working_files (the module operations/dispatcher.py takes  *)
(* its auto-save hook from), the CAD kernel's open documents, and the      *)
(* files on disk.  Each tool call is one action.                           *)
(*                                                                         *)
(* The CAD kernel and the file system are collaborators: a file holds a    *)
(* document content, or bytes the kernel cannot open; a write (save,       *)
(* saveAs, copy2) may raise OSError, leaving its target untouched or       *)
(* partially written.  Directories always exist; FreeCAD is importable.    *)
(***************************************************************************)
EXTENDS Integers, Sequences, FiniteSets, TLC

(***************************************************************************)
(* Bounds                                                                  *)
(***************************************************************************)
MaxOps == 2
MaxDocs == 2
MaxGeo == 1
MaxParts == 3
MaxObjs == 2
MaxNames == 2

(***************************************************************************)
(* Program constants                                                       *)
(***************************************************************************)
AUTO_SAVE_INTERVAL == 1
WORK_FILE_SUFFIX == "_work"
VALIDATE_BEFORE_COMMIT == TRUE

None == "None"

(***************************************************************************)
(* Document contents: what Document.Objects holds, per object name.        *)
(***************************************************************************)
Names == {"S1"}
ObjKinds == {"none", "Cylinder", "Sketch"}

Contents ==
    { c \in [kind : [Names -> ObjKinds], geo : [Names -> 0..MaxGeo], bad : SUBSET Names] :
        /\ \A n \in Names : c.geo[n] > 0 => c.kind[n] = "Sketch"
        /\ \A n \in c.bad : c.kind[n] # "none" }

Blank == [kind |-> [n \in Names |-> "none"], geo |-> [n \in Names |-> 0], bad |-> {}]

Saved == [Blank EXCEPT !.kind["S1"] = "Sketch"]

Objects(c) == { n \in Names : c.kind[n] # "none" }

(***************************************************************************)
(* A file is absent, holds a saved document, or holds bytes the kernel     *)
(* cannot open (a partially written file).                                 *)
(***************************************************************************)
NoFile == [state |-> "none", data |-> Blank]
Partial == [state |-> "partial", data |-> Blank]
FileOf(c) == [state |-> "ok", data |-> c]

(***************************************************************************)
(* Paths: a directory and a file name split at its dots.                   *)
(***************************************************************************)
\* d1 is the projects directory, d2 a directory outside of it
Dirs == {"d1", "d2"}
DEFAULT_PROJECTS_DIR == "d1"
InProjectsDir(path) == path.dir = DEFAULT_PROJECTS_DIR
CanonPaths == { [dir |-> d, name |-> <<"a", ".FCStd">>] : d \in Dirs }
ExistingPath == [dir |-> "d1", name |-> <<"a", ".FCStd">>]
WorkDirSettings == {None, "w"}
NoPath == [dir |-> None, name |-> <<>>]
NoDoc == [open |-> FALSE, file |-> NoPath, content |-> Blank]

Stem(name) == IF Len(name) > 1 THEN SubSeq(name, 1, Len(name) - 1) ELSE name

get_work_file_path(main_file_path, work_dir_str) ==
    IF work_dir_str # None
    THEN LET work_dir == IF work_dir_str = "temp" THEN "tmp/adam_mcp_work" ELSE work_dir_str
         IN  [dir |-> work_dir, name |-> Append(Stem(main_file_path.name), WORK_FILE_SUFFIX)]
    ELSE [dir |-> main_file_path.dir, name |-> Append(main_file_path.name, WORK_FILE_SUFFIX)]

Files == CanonPaths \cup { get_work_file_path(p, w) : p \in CanonPaths, w \in WorkDirSettings }

VARIABLES
    fs,               \* file system: Files -> content, Partial or NoFile
    docs,             \* kernel: open documents, by slot
    active,           \* kernel: FreeCAD.ActiveDocument (slot, 0 = none)
    wf_main,          \* adam_mcp.working_files._active_main_file_path
    wf_work,          \* adam_mcp.working_files._active_work_file_path
    wf_counter,       \* adam_mcp.working_files._operation_counter
    core_main,        \* adam_mcp.core.working_files._active_main_file_path
    core_work,        \* adam_mcp.core.working_files._active_work_file_path
    core_counter,     \* adam_mcp.core.working_files._operation_counter
    work_dir_env,     \* os.environ[ADAM_MCP_WORK_DIR]
    commit,           \* a commit_changes call in flight: its position and its locals
    last              \* the last tool call and what it returned or raised

vars == <<fs, docs, active, wf_main, wf_work, wf_counter,
          core_main, core_work, core_counter, work_dir_env, commit, last>>

(***************************************************************************)
(* A call runs on a record of the state plus the exception in flight and   *)
(* the fault the environment injects: the fault-th write of the call       *)
(* raises OSError, leaving a partial file when partial is set; a saveAs    *)
(* that raises has already rebound the document to the new file name when  *)
(* rebind is set.  reuse is how the kernel answers FreeCAD.open for a file  *)
(* that an open document is already bound to: with that document (set) or  *)
(* with a second document read from the file (unset).  stages lists, in     *)
(* order, the stages of the operation pipeline the call has entered.       *)
(***************************************************************************)
Current(fault, partial, rebind) ==
    [fs |-> fs, docs |-> docs, active |-> active,
     wf_main |-> wf_main, wf_work |-> wf_work, wf_counter |-> wf_counter,
     core_main |-> core_main, core_work |-> core_work, core_counter |-> core_counter,
     env |-> work_dir_env,
     exc |-> "none", msg |-> None, io |-> 0, fault |-> fault, partial |-> partial, rebind |-> rebind,
     reuse |-> FALSE,
     stages |-> <<>>,
     wrote |-> {},
     ret |-> None]

Raise(s, e, m) == [s EXCEPT !.exc = e, !.msg = m]

\* the call enters a stage of the operation pipeline
Stage(s, stage) == [s EXCEPT !.stages = Append(@, stage)]

Write(s, path, data) ==
    LET k == s.io + 1
    IN  IF k = s.fault
        THEN [s EXCEPT !.io = k, !.exc = "OSError", !.msg = "io",
                       !.fs[path] = IF s.partial THEN Partial ELSE @,
                       !.wrote = IF s.partial THEN @ \cup {path} ELSE @]
        ELSE [s EXCEPT !.io = k, !.fs[path] = data, !.wrote = @ \cup {path}]

copy2(s, src, dst) ==
    IF src = dst \/ s.fs[src] = NoFile
    THEN Raise(s, "OSError", "io")
    ELSE Write(s, dst, s.fs[src])

(***************************************************************************)
(* Kernel calls                                                            *)
(***************************************************************************)
FreeSlots(s) == { i \in 1..MaxDocs : ~s.docs[i].open }

OpenOn(s, path) == { i \in 1..MaxDocs : s.docs[i].open /\ s.docs[i].file = path }

FreeCAD_open(s, path) ==
    IF s.reuse /\ OpenOn(s, path) # {}
    THEN [s EXCEPT !.active = CHOOSE j \in OpenOn(s, path) : \A k \in OpenOn(s, path) : j <= k]
    ELSE IF s.fs[path].state = "ok" /\ FreeSlots(s) # {}
    THEN LET i == CHOOSE j \in FreeSlots(s) : \A k \in FreeSlots(s) : j <= k
         IN  [s EXCEPT !.docs[i] = [open |-> TRUE, file |-> path, content |-> s.fs[path].data], !.active = i]
    ELSE Raise(s, "OSError", "kernel")

FreeCAD_newDocument(s) ==
    IF FreeSlots(s) # {}
    THEN LET i == CHOOSE j \in FreeSlots(s) : \A k \in FreeSlots(s) : j <= k
         IN  [s EXCEPT !.docs[i] = [open |-> TRUE, file |-> NoPath, content |-> Blank], !.active = i]
    ELSE Raise(s, "RuntimeError", "kernel")

FreeCAD_closeDocument(s, i) ==
    LET rest == { j \in 1..MaxDocs : j # i /\ s.docs[j].open }
    IN  [s EXCEPT !.docs[i] = NoDoc,
                  !.active = IF s.active # i THEN @
                             ELSE IF rest = {} THEN 0
                             ELSE CHOOSE j \in rest : \A k \in rest : j <= k]

doc_saveAs(s, i, path) ==
    LET w == Write(s, path, FileOf(s.docs[i].content))
    IN  IF w.exc # "none" /\ ~s.rebind THEN w ELSE [w EXCEPT !.docs[i].file = path]

doc_save(s, i) ==
    IF s.docs[i].file = NoPath
    THEN Raise(s, "RuntimeError", "kernel")
    ELSE Write(s, s.docs[i].file, FileOf(s.docs[i].content))

(***************************************************************************)
(* adam_mcp.working_files: the working-file manager tools/document.py uses *)
(***************************************************************************)
set_active_files(s, main_path, work_path) ==
    [s EXCEPT !.wf_main = main_path, !.wf_work = work_path]

reset_operation_counter(s) == [s EXCEPT !.wf_counter = 0]

setup_working_file(s, main_file_path) ==
    LET work_file_path == get_work_file_path(main_file_path, s.env)
    IN  IF s.fs[main_file_path] # NoFile
        THEN copy2(s, main_file_path, work_file_path)
        ELSE s

(***************************************************************************)
(* adam_mcp.utils                                                          *)
(***************************************************************************)
\* validate_document accepting a document without objects
validate_document_allow_empty(c) == c.bad = {}

validate_document(c) == Objects(c) # {} /\ c.bad = {}

get_active_document(s) ==
    IF s.active = 0 THEN Raise(s, "RuntimeError", "ERROR_NO_ACTIVE_DOC") ELSE s

DocumentInfo(s) == [s EXCEPT !.ret = Objects(s.docs[s.active].content)]

(***************************************************************************)
(* tools/document.py                                                       *)
(***************************************************************************)
Wrapped(s) == [s EXCEPT !.exc = "RuntimeError", !.msg = "ERROR_FREECAD_API"]

\* open_document without the closing of the active document
open_document_keeping_previous(s, path) ==
    IF s.fs[path] = NoFile
    THEN Raise(s, "FileNotFoundError", "ERROR_FILE_NOT_FOUND")
    ELSE LET s1 == setup_working_file(s, path)
             work_file_path == get_work_file_path(path, s.env)
             s2 == reset_operation_counter(set_active_files(s1, path, work_file_path))
             s4 == FreeCAD_open(s2, work_file_path)
         IN  IF s1.exc # "none" THEN Wrapped(s1)
             ELSE IF s4.exc # "none" THEN Wrapped(s4)
             ELSE DocumentInfo(s4)

\* open_document closing the active document before it looks for the file
open_document_closing_first(s, path) ==
    LET s0 == IF s.active # 0 THEN FreeCAD_closeDocument(s, s.active) ELSE s
    IN  IF s.fs[path] = NoFile
        THEN Raise(s0, "FileNotFoundError", "ERROR_FILE_NOT_FOUND")
        ELSE LET s1 == setup_working_file(s0, path)
                 work_file_path == get_work_file_path(path, s.env)
                 s2 == reset_operation_counter(set_active_files(s1, path, work_file_path))
                 s4 == FreeCAD_open(s2, work_file_path)
             IN  IF s1.exc # "none" THEN Wrapped(s1)
                 ELSE IF s4.exc # "none" THEN Wrapped(s4)
                 ELSE DocumentInfo(s4)

open_document(s, path) ==
    IF s.fs[path] = NoFile
    THEN Raise(s, "FileNotFoundError", "ERROR_FILE_NOT_FOUND")
    ELSE LET s1 == setup_working_file(s, path)
             work_file_path == get_work_file_path(path, s.env)
             s2 == reset_operation_counter(set_active_files(s1, path, work_file_path))
             s3 == IF s2.active # 0 THEN FreeCAD_closeDocument(s2, s2.active) ELSE s2
             s4 == FreeCAD_open(s3, work_file_path)
         IN  IF s1.exc # "none" THEN Wrapped(s1)
             ELSE IF s4.exc # "none" THEN Wrapped(s4)
             ELSE DocumentInfo(s4)

create_document(s, path) ==
    LET s1 == IF s.active # 0 THEN FreeCAD_closeDocument(s, s.active) ELSE s
        s2 == FreeCAD_newDocument(s1)
        doc == s2.active
        s3 == doc_saveAs(s2, doc, path)
        s4 == setup_working_file(s3, path)
        work_file_path == get_work_file_path(path, s.env)
        s5 == set_active_files(s4, path, work_file_path)
        s6 == doc_saveAs(s5, doc, work_file_path)
        s7 == reset_operation_counter(s6)
    IN  IF s2.exc # "none" THEN Wrapped(s2)
        ELSE IF s3.exc # "none" THEN Wrapped(s3)
        ELSE IF s4.exc # "none" THEN Wrapped(s4)
        ELSE IF s6.exc # "none" THEN Wrapped(s6)
        ELSE DocumentInfo(s7)

\* commit_changes saving the working document before it validates it
commit_changes_save_first(s) ==
    IF s.wf_main = NoPath \/ s.wf_work = NoPath
    THEN Raise(s, "RuntimeError", "ERROR_NO_OPEN_DOC")
    ELSE LET g == get_active_document(s)
             doc == s.active
             s1 == doc_save(s, doc)
             s2 == copy2(s1, s.wf_work, s.wf_main)
         IN  IF g.exc # "none" THEN g
             ELSE IF s1.exc # "none" THEN Wrapped(s1)
             ELSE IF VALIDATE_BEFORE_COMMIT /\ ~validate_document(s.docs[doc].content)
             THEN Raise(s1, "RuntimeError", "ERROR_VALIDATION_FAILED")
             ELSE IF s2.exc # "none" THEN Wrapped(s2)
             ELSE [s2 EXCEPT !.ret = "SUCCESS_CHANGES_COMMITTED"]

\* commit_changes saving the active document before it looks for a session
commit_changes_saving_unrecorded(s) ==
    IF s.wf_main = NoPath \/ s.wf_work = NoPath
    THEN LET s1 == IF s.active # 0 THEN doc_save(s, s.active) ELSE s
         IN  Raise(s1, "RuntimeError", "ERROR_NO_OPEN_DOC")
    ELSE LET g == get_active_document(s)
             doc == s.active
             s1 == doc_save(s, doc)
             s2 == copy2(s1, s.wf_work, s.wf_main)
         IN  IF g.exc # "none" THEN g
             ELSE IF VALIDATE_BEFORE_COMMIT /\ ~validate_document(s.docs[doc].content)
             THEN Raise(s, "RuntimeError", "ERROR_VALIDATION_FAILED")
             ELSE IF s1.exc # "none" THEN Wrapped(s1)
             ELSE IF s2.exc # "none" THEN Wrapped(s2)
             ELSE [s2 EXCEPT !.ret = "SUCCESS_CHANGES_COMMITTED"]

\* commit_changes restarting the auto-save cadence
commit_changes_resetting_counter(s) ==
    IF s.wf_main = NoPath \/ s.wf_work = NoPath
    THEN Raise(s, "RuntimeError", "ERROR_NO_OPEN_DOC")
    ELSE LET g == get_active_document(s)
             doc == s.active
             s1 == doc_save(s, doc)
             s2 == copy2(s1, s.wf_work, s.wf_main)
         IN  IF g.exc # "none" THEN g
             ELSE IF VALIDATE_BEFORE_COMMIT /\ ~validate_document(s.docs[doc].content)
             THEN Raise(s, "RuntimeError", "ERROR_VALIDATION_FAILED")
             ELSE IF s1.exc # "none" THEN Wrapped(s1)
             ELSE IF s2.exc # "none" THEN Wrapped(s2)
             ELSE [s2 EXCEPT !.ret = "SUCCESS_CHANGES_COMMITTED",
                             !.core_counter = 0, !.wf_counter = 0]

commit_changes(s) ==
    IF s.wf_main = NoPath \/ s.wf_work = NoPath
    THEN Raise(s, "RuntimeError", "ERROR_NO_OPEN_DOC")
    ELSE LET g == get_active_document(s)
             doc == s.active
             s1 == doc_save(s, doc)
             s2 == copy2(s1, s.wf_work, s.wf_main)
         IN  IF g.exc # "none" THEN g
             ELSE IF VALIDATE_BEFORE_COMMIT /\ ~validate_document(s.docs[doc].content)
             THEN Raise(s, "RuntimeError", "ERROR_VALIDATION_FAILED")
             ELSE IF s1.exc # "none" THEN Wrapped(s1)
             ELSE IF s2.exc # "none" THEN Wrapped(s2)
             ELSE [s2 EXCEPT !.ret = "SUCCESS_CHANGES_COMMITTED"]

\* rollback_working_changes resetting the working file without reloading
\* the kernel document
rollback_without_reload(s) ==
    IF s.wf_main = NoPath \/ s.wf_work = NoPath
    THEN Raise(s, "RuntimeError", "ERROR_NO_OPEN_DOC")
    ELSE LET g == get_active_document(s)
             s2 == copy2(s, s.wf_main, s.wf_work)
             s4 == reset_operation_counter(s2)
         IN  IF g.exc # "none" THEN Wrapped(g)
             ELSE IF s2.exc # "none" THEN Wrapped(s2)
             ELSE [s4 EXCEPT !.ret = "SUCCESS_CHANGES_ROLLED_BACK"]

rollback_working_changes(s) ==
    IF s.wf_main = NoPath \/ s.wf_work = NoPath
    THEN Raise(s, "RuntimeError", "ERROR_NO_OPEN_DOC")
    ELSE LET g == get_active_document(s)
             s1 == FreeCAD_closeDocument(s, s.active)
             s2 == copy2(s1, s.wf_main, s.wf_work)
             s3 == FreeCAD_open(s2, s.wf_work)
             s4 == reset_operation_counter(s3)
         IN  IF g.exc # "none" THEN Wrapped(g)
             ELSE IF s2.exc # "none" THEN Wrapped(s2)
             ELSE IF s3.exc # "none" THEN Wrapped(s3)
             ELSE [s4 EXCEPT !.ret = "SUCCESS_CHANGES_ROLLED_BACK"]

get_document_info(s) ==
    LET g == get_active_document(s)
    IN  IF g.exc # "none" THEN g ELSE DocumentInfo(s)

(***************************************************************************)
(* operations/handlers: semantic check, then the kernel mutation.  kout is *)
(* what the kernel does with the mutation: "ok", "invalid" (the object is  *)
(* left in an invalid state), "raise_before" (the kernel call raises and   *)
(* nothing is changed) or "raise_after" (the recompute raises after the    *)
(* change).                                                                *)
(***************************************************************************)
KernelOutcomes == {"ok", "invalid", "raise_before", "raise_after"}

Mutate(s, name, newkind, newgeo, kout) ==
    LET d == s.active
        m == Stage(s, "mutation")
        changed == [m EXCEPT !.docs[d].content.kind[name] = newkind,
                             !.docs[d].content.geo[name] = newgeo,
                             !.docs[d].content.bad =
                                 IF kout = "invalid" THEN @ \cup {name} ELSE @,
                             !.ret = name]
    IN  CASE kout = "raise_before" -> Raise(m, "RuntimeError", "kernel")
          [] kout = "raise_after"  -> Raise(changed, "RuntimeError", "kernel")
          [] OTHER                 -> changed

\* execute_create_cylinder without its check for an existing object
execute_create_cylinder_unchecked(s, operation, kout) ==
    Mutate(s, operation.name, "Cylinder", 0, kout)

execute_create_cylinder(s, operation, kout) ==
    LET checking == Stage(s, "semantic_check")
    IN  IF s.docs[s.active].content.kind[operation.name] # "none"
        THEN Raise(checking, "ValueError", "already exists")
        ELSE Mutate(checking, operation.name, "Cylinder", 0, kout)

\* execute_create_sketch adding the sketch before it looks for an object of
\* that name
execute_create_sketch_checking_late(s, operation, kout) ==
    LET added == Mutate(s, operation.name, "Sketch", 0, kout)
        checking == Stage(added, "semantic_check")
    IN  IF added.exc # "none" THEN added
        ELSE IF s.docs[s.active].content.kind[operation.name] # "none"
        THEN Raise(checking, "ValueError", "already exists")
        ELSE checking

execute_create_sketch(s, operation, kout) ==
    LET checking == Stage(s, "semantic_check")
    IN  IF s.docs[s.active].content.kind[operation.name] # "none"
        THEN Raise(checking, "ValueError", "already exists")
        ELSE Mutate(checking, operation.name, "Sketch", 0, kout)

execute_add_sketch_circle(s, operation, kout) ==
    LET c == s.docs[s.active].content
        checking == Stage(s, "semantic_check")
    IN  IF c.kind[operation.name] = "none"
        THEN Raise(checking, "ValueError", "not found")
        ELSE IF c.kind[operation.name] # "Sketch"
        THEN Raise(checking, "ValueError", "not a sketch")
        ELSE Mutate(checking, operation.name, "Sketch", c.geo[operation.name] + 1, kout)

(***************************************************************************)
(* adam_mcp.core.working_files: the auto-save hook of the dispatcher       *)
(***************************************************************************)
Suffix(name) == IF Len(name) > 1 THEN <<name[Len(name)]>> ELSE <<>>

core_get_work_file_path(main_file_path, work_dir_str) ==
    LET work_file_name ==
            Stem(main_file_path.name) \o <<WORK_FILE_SUFFIX>> \o Suffix(main_file_path.name)
    IN  IF work_dir_str # None
        THEN LET work_dir == IF work_dir_str = "temp" THEN "tmp/adam_mcp_work" ELSE work_dir_str
             IN  [dir |-> work_dir, name |-> work_file_name]
        ELSE [dir |-> main_file_path.dir, name |-> work_file_name]

\* opens the file, closes the document the kernel returned, makes the
\* document that was active the active one again if it is still open; False
\* when the kernel cannot open the file
is_valid_freecad_file(s, file_path) ==
    LET test == FreeCAD_open(s, file_path)
        closed == FreeCAD_closeDocument(test, test.active)
    IN  IF test.exc # "none"
        THEN [s EXCEPT !.ret = FALSE]
        ELSE [closed EXCEPT !.active = IF s.active # 0 /\ closed.docs[s.active].open
                                       THEN s.active ELSE @,
                            !.ret = TRUE]

\* setup_working_file resuming any working file that exists
core_setup_working_file_unprobed(s, main_file_path) ==
    LET work_file_path == core_get_work_file_path(main_file_path, s.env)
        copied == IF s.fs[main_file_path] # NoFile
                  THEN copy2(s, main_file_path, work_file_path)
                  ELSE s
    IN  IF s.fs[work_file_path] # NoFile
        THEN [s EXCEPT !.ret = work_file_path]
        ELSE IF copied.exc # "none" THEN copied
        ELSE [copied EXCEPT !.ret = work_file_path]

core_setup_working_file(s, main_file_path) ==
    LET work_file_path == core_get_work_file_path(main_file_path, s.env)
        probe == is_valid_freecad_file(s, work_file_path)
        unlinked == IF s.fs[work_file_path] # NoFile
                    THEN [probe EXCEPT !.fs[work_file_path] = NoFile,
                                       !.wrote = @ \cup {work_file_path},
                                       !.ret = None]
                    ELSE s
        copied == IF unlinked.fs[main_file_path] # NoFile
                  THEN copy2(unlinked, main_file_path, work_file_path)
                  ELSE unlinked
    IN  IF s.fs[work_file_path] # NoFile /\ probe.ret
        THEN [probe EXCEPT !.ret = work_file_path]
        ELSE IF copied.exc # "none" THEN copied
        ELSE [copied EXCEPT !.ret = work_file_path]

core_set_active_files(s, main_path, work_path) ==
    [s EXCEPT !.core_main = main_path, !.core_work = work_path]

\* auto_save_working_file letting the exception of doc.save() out
auto_save_working_file_raising(s) ==
    IF s.active # 0 /\ s.core_work # NoPath
    THEN doc_save(s, s.active)
    ELSE s

auto_save_working_file(s) ==
    IF s.active # 0 /\ s.core_work # NoPath
    THEN LET w == doc_save(s, s.active)
         IN  [w EXCEPT !.exc = "none", !.msg = None]
    ELSE s

increment_operation_counter(s) ==
    LET s1 == [s EXCEPT !.core_counter = @ + 1]
    IN  IF s1.core_counter % AUTO_SAVE_INTERVAL = 0
        THEN auto_save_working_file(s1)
        ELSE s1

(***************************************************************************)
(* operations/dispatcher.py                                                *)
(***************************************************************************)
OPERATION_HANDLERS == {"create_cylinder", "create_sketch", "add_sketch_circle"}

OperationResult(s, success, message, error_type, affected_object) ==
    [s EXCEPT !.exc = "none", !.msg = None,
              !.ret = [success |-> success, message |-> message,
                       error_type |-> error_type,
                       affected_object |-> affected_object]]

handler(s, operation, kout) ==
    CASE operation.action = "create_cylinder"   -> execute_create_cylinder(s, operation, kout)
      [] operation.action = "create_sketch"     -> execute_create_sketch(s, operation, kout)
      [] operation.action = "add_sketch_circle" -> execute_add_sketch_circle(s, operation, kout)

\* execute_operation returning success without the affected object
execute_operation_inner_unnamed(s, operation, kout) ==
    LET g == get_active_document(s)
        h == handler(s, operation, kout)
    IN  IF g.exc # "none"
        THEN OperationResult(g, FALSE, g.msg, "runtime", None)
        ELSE IF operation.action \notin OPERATION_HANDLERS
        THEN OperationResult(s, FALSE, "Unknown operation", "validation", None)
        ELSE IF h.exc = "ValueError"
        THEN OperationResult(h, FALSE, h.msg, "validation", None)
        ELSE IF h.exc # "none"
        THEN OperationResult(h, FALSE, h.msg, "runtime", None)
        ELSE IF ~validate_document(h.docs[h.active].content)
        THEN OperationResult(h, FALSE, "invalid geometry", "geometry", None)
        ELSE OperationResult(h, TRUE, "Successfully created", None, None)

\* execute_operation looking the handler up before it resolves the document
execute_operation_inner_lookup_first(s, operation, kout) ==
    LET g == get_active_document(s)
        h == handler(s, operation, kout)
    IN  IF operation.action \notin OPERATION_HANDLERS
        THEN OperationResult(s, FALSE, "Unknown operation", "validation", None)
        ELSE IF g.exc # "none"
        THEN OperationResult(g, FALSE, g.msg, "runtime", None)
        ELSE IF h.exc = "ValueError"
        THEN OperationResult(h, FALSE, h.msg, "validation", None)
        ELSE IF h.exc # "none"
        THEN OperationResult(h, FALSE, h.msg, "runtime", None)
        ELSE IF ~validate_document(h.docs[h.active].content)
        THEN OperationResult(h, FALSE, "invalid geometry", "geometry", None)
        ELSE OperationResult(h, TRUE, "Successfully created", None, h.ret)

\* execute_operation undoing the mutation when the document fails validation
execute_operation_inner_undoing(s, operation, kout) ==
    LET g == get_active_document(s)
        h == handler(s, operation, kout)
    IN  IF g.exc # "none"
        THEN OperationResult(g, FALSE, g.msg, "runtime", None)
        ELSE IF operation.action \notin OPERATION_HANDLERS
        THEN OperationResult(s, FALSE, "Unknown operation", "validation", None)
        ELSE IF h.exc = "ValueError"
        THEN OperationResult(h, FALSE, h.msg, "validation", None)
        ELSE IF h.exc # "none"
        THEN OperationResult(h, FALSE, h.msg, "runtime", None)
        ELSE IF ~validate_document(h.docs[h.active].content)
        THEN OperationResult(s, FALSE, "invalid geometry", "geometry", None)
        ELSE OperationResult(h, TRUE, "Successfully created", None, h.ret)

\* execute_operation without its except clause for exceptions other than
\* ValueError
execute_operation_inner_no_except(s, operation, kout) ==
    LET g == get_active_document(s)
        h == handler(s, operation, kout)
    IN  IF g.exc # "none"
        THEN g
        ELSE IF operation.action \notin OPERATION_HANDLERS
        THEN OperationResult(s, FALSE, "Unknown operation", "validation", None)
        ELSE IF h.exc = "ValueError"
        THEN OperationResult(h, FALSE, h.msg, "validation", None)
        ELSE IF h.exc # "none"
        THEN h
        ELSE IF ~validate_document(h.docs[h.active].content)
        THEN OperationResult(h, FALSE, "invalid geometry", "geometry", None)
        ELSE OperationResult(h, TRUE, "Successfully created", None, h.ret)

\* execute_operation calling the handler a second time when the kernel
\* raises in the first call
execute_operation_inner_retrying(s, operation, kout) ==
    LET g == get_active_document(s)
        first == handler(s, operation, kout)
        h == IF first.exc \in {"none", "ValueError"} THEN first
             ELSE handler([first EXCEPT !.exc = "none", !.msg = None], operation, "ok")
        v == Stage(h, "validation")
    IN  IF g.exc # "none"
        THEN OperationResult(g, FALSE, g.msg, "runtime", None)
        ELSE IF operation.action \notin OPERATION_HANDLERS
        THEN OperationResult(s, FALSE, "Unknown operation", "validation", None)
        ELSE IF h.exc = "ValueError"
        THEN OperationResult(h, FALSE, h.msg, "validation", None)
        ELSE IF h.exc # "none"
        THEN OperationResult(h, FALSE, h.msg, "runtime", None)
        ELSE IF ~validate_document(h.docs[h.active].content)
        THEN OperationResult(v, FALSE, "invalid geometry", "geometry", None)
        ELSE OperationResult(v, TRUE, "Successfully created", None, h.ret)

execute_operation_inner(s, operation, kout) ==
    LET g == get_active_document(s)
        h == handler(s, operation, kout)
        v == Stage(h, "validation")
    IN  IF g.exc # "none"
        THEN OperationResult(g, FALSE, g.msg, "runtime", None)
        ELSE IF operation.action \notin OPERATION_HANDLERS
        THEN OperationResult(s, FALSE, "Unknown operation", "validation", None)
        ELSE IF h.exc = "ValueError"
        THEN OperationResult(h, FALSE, h.msg, "validation", None)
        ELSE IF h.exc # "none"
        THEN OperationResult(h, FALSE, h.msg, "runtime", None)
        ELSE IF ~validate_document(h.docs[h.active].content)
        THEN OperationResult(v, FALSE, "invalid geometry", "geometry", None)
        ELSE OperationResult(v, TRUE, "Successfully created", None, h.ret)

\* auto_save_after counting only the calls that return success
execute_operation_count_success(s, operation, kout) ==
    LET r == execute_operation_inner(s, operation, kout)
    IN  IF r.ret.success THEN increment_operation_counter(r) ELSE r

execute_operation(s, operation, kout) ==
    increment_operation_counter(execute_operation_inner(s, operation, kout))

(***************************************************************************)
(* tools/execution.py: each tool builds its operation model, whose         *)
(* construction checks the schema constraints (valid is whether the        *)
(* arguments satisfy them), and hands it to the dispatcher.                *)
(***************************************************************************)
ToolActions ==
    OPERATION_HANDLERS \cup {"create_pad", "create_pocket", "create_thread", "modify_object"}

\* the kernel is only called for a kind that has a handler
HandlerOutcomes(action) ==
    IF action \in OPERATION_HANDLERS THEN KernelOutcomes ELSE {"ok"}

\* the kinds called with arguments that violate their schema
SchemaRejected == {"create_cylinder", "create_pad"}

Operation(s, action, name, valid) ==
    IF valid
    THEN [s EXCEPT !.ret = [action |-> action, name |-> name]]
    ELSE Raise(s, "ValidationError", "schema")

execution_tool(s, action, name, valid, kout) ==
    LET o == Operation(s, action, name, valid)
    IN  IF o.exc # "none" THEN o ELSE execute_operation(s, o.ret, kout)

(***************************************************************************)
(* utils/paths.py.  A path is the sequence of its components, a component  *)
(* the sequence of its characters, so that str() and str.startswith are    *)
(* what they are on strings.  default_dir is the resolved projects         *)
(* directory; a raw path has an anchor ("/" or "~" make it absolute once   *)
(* expanded) and components.  There are no symbolic links.                 *)
(***************************************************************************)
Components == { <<"d", "1">>, <<"d", "1", "x">>, <<"a">>, <<".", ".">> }

default_dir == << <<"d", "1">> >>

RECURSIVE SeqsUpTo(_)
SeqsUpTo(n) ==
    IF n = 0 THEN { <<>> }
    ELSE SeqsUpTo(n - 1) \cup
         { Append(q, c) : q \in { r \in SeqsUpTo(n - 1) : Len(r) = n - 1 }, c \in Components }

RawPaths == [anchor : {"", "/", "~"}, parts : SeqsUpTo(MaxParts) \ { <<>> }]

is_absolute(path_obj) == path_obj.anchor # ""

RECURSIVE resolve(_, _)
resolve(done, parts) ==
    IF parts = <<>> THEN done
    ELSE IF Head(parts) = <<".", ".">>
    THEN resolve(IF done = <<>> THEN done ELSE SubSeq(done, 1, Len(done) - 1), Tail(parts))
    ELSE resolve(Append(done, Head(parts)), Tail(parts))

RECURSIVE str(_)
str(parts) ==
    IF parts = <<>> THEN <<>>
    ELSE <<"/">> \o Head(parts) \o str(Tail(parts))

startswith(x, prefix) ==
    Len(prefix) <= Len(x) /\ SubSeq(x, 1, Len(prefix)) = prefix

resolve_project_path(s, path) ==
    IF is_absolute(path)
    THEN Raise(s, "ValueError", "Absolute paths not allowed")
    ELSE LET resolved_path == resolve(default_dir, path.parts)
         IN  IF ~startswith(str(resolved_path), str(default_dir))
             THEN Raise(s, "ValueError", "Path escapes project directory")
             ELSE [s EXCEPT !.ret = resolved_path]

(***************************************************************************)
(* The state machine: one action per tool call                             *)
(***************************************************************************)
\* no commit_changes call is in flight and none has been made
NoCommit == [at |-> "idle", doc |-> 0, main |-> NoPath, work |-> NoPath, validated |-> Blank]

NoResult == [success |-> FALSE, message |-> None, error_type |-> None, affected_object |-> None]

Init ==
    /\ fs = [p \in Files |-> IF p = ExistingPath THEN FileOf(Saved) ELSE NoFile]
    /\ docs = [i \in 1..MaxDocs |-> NoDoc]
    /\ active = 0
    /\ wf_main = NoPath
    /\ wf_work = NoPath
    /\ wf_counter = 0
    /\ core_main = NoPath
    /\ core_work = NoPath
    /\ core_counter = 0
    /\ work_dir_env = None
    /\ commit = NoCommit
    /\ last = [op |-> "init",
               exc |-> "none", msg |-> None, result |-> NoResult, wrote |-> {},
               doc_changed |-> FALSE]

Finish(s, op) ==
    /\ fs' = s.fs
    /\ docs' = s.docs
    /\ active' = s.active
    /\ wf_main' = s.wf_main
    /\ wf_work' = s.wf_work
    /\ wf_counter' = s.wf_counter
    /\ core_main' = s.core_main
    /\ core_work' = s.core_work
    /\ core_counter' = s.core_counter
    /\ work_dir_env' = work_dir_env
    /\ commit' = commit
    /\ last' = [op |-> op,
                exc |-> s.exc, msg |-> s.msg,
                result |-> IF op = "execute_operation" THEN s.ret ELSE NoResult,
                wrote |-> s.wrote,
                doc_changed |-> /\ active # 0
                                /\ s.active # 0
                                /\ s.docs[s.active].content # docs[active].content]

(***************************************************************************)
(* Faults the environment may inject into a call making at most n writes   *)
(***************************************************************************)
Faults(n) == {<<0, FALSE>>} \cup ((1..n) \X BOOLEAN)

Rebinds(f) == IF f[1] \in {1, 3} THEN BOOLEAN ELSE {FALSE}

\* writes only happen in the auto-save, which needs its working path set
SaveFaults == Faults(IF core_work = NoPath THEN 0 ELSE 1)

OpenDocument ==
    \E path \in CanonPaths, f \in Faults(1) :
        Finish(open_document(Current(f[1], f[2], FALSE), path), "open_document")

CreateDocument ==
    \E path \in CanonPaths, f \in Faults(3) : \E rebind \in Rebinds(f) :
        Finish(create_document(Current(f[1], f[2], rebind), path), "create_document")

CommitChanges ==
    \E f \in Faults(2) :
        Finish(commit_changes(Current(f[1], f[2], FALSE)), "commit_changes")

RollbackWorkingChanges ==
    \E f \in Faults(1) :
        Finish(rollback_working_changes(Current(f[1], f[2], FALSE)), "rollback_working_changes")

GetDocumentInfo ==
    Finish(get_document_info(Current(0, FALSE, FALSE)), "get_document_info")

ExecuteOperation ==
    \E a \in ToolActions, n \in Names, valid \in BOOLEAN :
      \E kout \in HandlerOutcomes(a), f \in SaveFaults :
        /\ core_counter < MaxOps
        /\ (active # 0 /\ a = "add_sketch_circle")
               => docs[active].content.geo[n] < MaxGeo
        /\ ~valid => (a \in SchemaRejected /\ kout = "ok" /\ f[1] = 0)
        /\ Finish(execution_tool(Current(f[1], f[2], FALSE), a, n, valid, kout),
                  IF valid THEN "execute_operation" ELSE "execution_tool")

Next ==
    \/ OpenDocument
    \/ CreateDocument
    \/ CommitChanges
    \/ RollbackWorkingChanges
    \/ GetDocumentInfo
    \/ ExecuteOperation

Spec == Init /\ [][Next]_vars

(***************************************************************************)
(* The auto-save hook with its own session state set: the calls of a       *)
(* client that records the session through adam_mcp.core.working_files.    *)
(***************************************************************************)
\* the canonical file on disk holds any document saved earlier
InitCore ==
    /\ \E c \in Contents :
          fs = [p \in Files |-> IF p = ExistingPath THEN FileOf(c) ELSE NoFile]
    /\ docs = [i \in 1..MaxDocs |-> NoDoc]
    /\ active = 0
    /\ wf_main = NoPath
    /\ wf_work = NoPath
    /\ wf_counter = 0
    /\ core_main = NoPath
    /\ core_work = NoPath
    /\ core_counter = 0
    /\ work_dir_env = None
    /\ commit = NoCommit
    /\ last = [op |-> "init",
               exc |-> "none", msg |-> None, result |-> NoResult, wrote |-> {},
               doc_changed |-> FALSE]

CoreSetActiveFiles ==
    \E path \in CanonPaths :
        Finish(core_set_active_files(Current(0, FALSE, FALSE), path,
                                     get_work_file_path(path, work_dir_env)),
               "set_active_files")

NextCore ==
    \/ OpenDocument
    \/ CoreSetActiveFiles
    \/ ExecuteOperation

SpecCore == InitCore /\ [][NextCore]_vars

(***************************************************************************)
(* commit_changes running while other tool calls run: the call is three    *)
(* steps, the checks up to and including the validation, doc.save() and    *)
(* shutil.copy2, and a mutating operation may run between two of them.     *)
(* The paths and the document are locals of the call, read in the first    *)
(* step; validated is the document the validation accepted.                *)
(***************************************************************************)
commit_validate(s) ==
    IF s.wf_main = NoPath \/ s.wf_work = NoPath
    THEN Raise(s, "RuntimeError", "ERROR_NO_OPEN_DOC")
    ELSE LET g == get_active_document(s)
         IN  IF g.exc # "none" THEN g
             ELSE IF VALIDATE_BEFORE_COMMIT /\ ~validate_document(s.docs[s.active].content)
             THEN Raise(s, "RuntimeError", "ERROR_VALIDATION_FAILED")
             ELSE s

commit_save(s, doc) ==
    LET s1 == doc_save(s, doc)
    IN  IF s1.exc # "none" THEN Wrapped(s1) ELSE s1

commit_copy(s, work_file_path, main_file_path) ==
    LET s2 == copy2(s, work_file_path, main_file_path)
    IN  IF s2.exc # "none" THEN Wrapped(s2)
        ELSE [s2 EXCEPT !.ret = "SUCCESS_CHANGES_COMMITTED"]

\* a step of a commit_changes call: the call goes on to position at, or ends
CommitStep(r, at, locals) ==
    /\ fs' = r.fs
    /\ docs' = r.docs
    /\ active' = r.active
    /\ UNCHANGED <<wf_main, wf_work, wf_counter, core_main, core_work, core_counter,
                   work_dir_env>>
    /\ commit' = IF r.exc # "none" THEN [locals EXCEPT !.at = "idle"]
                 ELSE [locals EXCEPT !.at = at]
    /\ last' = IF r.exc = "none" /\ at # "idle" THEN last
               ELSE [op |-> "commit_changes",
                     exc |-> r.exc, msg |-> r.msg, result |-> NoResult, wrote |-> r.wrote,
                     doc_changed |-> FALSE]

CommitValidate ==
    /\ commit.at = "idle"
    /\ LET s == Current(0, FALSE, FALSE)
       IN  CommitStep(commit_validate(s), "validated",
                      IF commit_validate(s).exc # "none" THEN commit
                      ELSE [at |-> "idle", doc |-> active, main |-> wf_main, work |-> wf_work,
                            validated |-> docs[active].content])

CommitSave ==
    /\ commit.at = "validated"
    /\ \E f \in Faults(1) :
          CommitStep(commit_save(Current(f[1], f[2], FALSE), commit.doc), "saved", commit)

CommitCopy ==
    /\ commit.at = "saved"
    /\ \E f \in Faults(1) :
          CommitStep(commit_copy(Current(f[1], f[2], FALSE), commit.work, commit.main),
                     "idle", commit)

\* the interleavings are those of a commit with the mutating operations
NextConc ==
    \/ commit.at = "idle" /\ OpenDocument
    \/ ExecuteOperation
    \/ CommitValidate
    \/ CommitSave
    \/ CommitCopy

SpecConc == Init /\ [][NextConc]_vars

(***************************************************************************)
(* The path functions and the resuming setup of the working file, called   *)
(* on their own: the arguments and the files found on disk are drawn from  *)
(* bounded sets.                                                           *)
(***************************************************************************)
LibMain == ExistingPath
LibWork == core_get_work_file_path(LibMain, None)
\* canonical paths: a.FCStd, a, a.b.FCStd and a_work.FCStd in either directory
LibMainPaths ==
    { [dir |-> d, name |-> n] :
        d \in Dirs,
        n \in { <<"a", ".FCStd">>, <<"a">>, <<"a", ".b", ".FCStd">>,
                <<"a", WORK_FILE_SUFFIX, ".FCStd">> } }
LibFileStates == { NoFile, Partial, FileOf(Blank), FileOf(Saved) }

InitLib ==
    /\ \E m \in LibFileStates \ {Partial}, w \in LibFileStates :
          fs = [p \in {LibMain, LibWork} |-> IF p = LibMain THEN m ELSE w]
    /\ \E a \in {0, 1}, f \in {NoPath, LibWork} :
          /\ active = a
          /\ docs = [i \in 1..MaxDocs |->
                       IF i = a THEN [open |-> TRUE, file |-> f, content |-> Blank]
                       ELSE NoDoc]
    /\ wf_main = NoPath
    /\ wf_work = NoPath
    /\ wf_counter = 0
    /\ core_main = NoPath
    /\ core_work = NoPath
    /\ core_counter = 0
    /\ work_dir_env = None
    /\ commit = NoCommit
    /\ last = [op |-> "init", arg |-> None,
               exc |-> "none", msg |-> None, result |-> None, wrote |-> {},
               doc_changed |-> FALSE]

Returned(r, op, arg) ==
    /\ fs' = r.fs
    /\ docs' = r.docs
    /\ active' = r.active
    /\ UNCHANGED <<wf_main, wf_work, wf_counter, core_main, core_work, core_counter,
                   work_dir_env, commit>>
    /\ last' = [op |-> op, arg |-> arg,
                exc |-> r.exc, msg |-> r.msg, result |-> r.ret, wrote |-> r.wrote,
                doc_changed |-> FALSE]

ResolveProjectPath ==
    \E path \in RawPaths :
        Returned(resolve_project_path(Current(0, FALSE, FALSE), path),
                 "resolve_project_path", path)

GetWorkFilePath ==
    \E main \in LibMainPaths, w \in WorkDirSettings \cup {"temp"} :
        Returned([Current(0, FALSE, FALSE) EXCEPT !.ret = get_work_file_path(main, w)],
                 "get_work_file_path", [main |-> main, work_dir |-> w])

CoreGetWorkFilePath ==
    \E main \in LibMainPaths, w \in WorkDirSettings \cup {"temp"} :
        Returned([Current(0, FALSE, FALSE) EXCEPT !.ret = core_get_work_file_path(main, w)],
                 "core.get_work_file_path", [main |-> main, work_dir |-> w])

CoreSetupWorkingFile ==
    \E f \in Faults(1), reuse \in BOOLEAN :
        Returned(core_setup_working_file([Current(f[1], f[2], FALSE) EXCEPT !.reuse = reuse],
                                         LibMain),
                 "core.setup_working_file", [main |-> LibMain, before |-> fs[LibWork]])

NextLib ==
    \/ ResolveProjectPath
    \/ GetWorkFilePath
    \/ CoreGetWorkFilePath
    \/ CoreSetupWorkingFile

SpecLib == InitLib /\ [][NextLib]_vars

(***************************************************************************)
(* utils/validation.py, validate_document on what the kernel reports.  A   *)
(* kernel document is whether its recompute raises and the sequence of its *)
(* objects; an object is what its State says (absent when it has no such   *)
(* attribute) and what its Shape answers: no such attribute, a value that  *)
(* is false in a condition, or a shape whose isValid() is True, is False   *)
(* or raises.                                                              *)
(***************************************************************************)
KernelObjects ==
    [state : {"absent", "ok", "Invalid"},
     shape : {"absent", "falsy", "valid", "invalid", "raises"}]

RECURSIVE SeqsOver(_, _)
SeqsOver(S, n) ==
    IF n = 0 THEN { <<>> }
    ELSE SeqsOver(S, n - 1) \cup
         { Append(q, x) : q \in { r \in SeqsOver(S, n - 1) : Len(r) = n - 1 }, x \in S }

KernelDocuments == [recompute : {"ok", "raises"}, Objects : SeqsOver(KernelObjects, MaxObjs)]

\* the loop over doc.Objects, from the first object of objs on
RECURSIVE check_each_object(_, _)
check_each_object(s, objs) ==
    IF objs = <<>> THEN [s EXCEPT !.ret = TRUE]
    ELSE LET obj == Head(objs)
         IN  IF obj.state = "Invalid" THEN [s EXCEPT !.ret = FALSE]
             ELSE IF obj.shape = "raises" THEN Raise(s, "Exception", "isValid")
             ELSE IF obj.shape = "invalid" THEN [s EXCEPT !.ret = FALSE]
             ELSE check_each_object(s, Tail(objs))

\* the body of the try block
validate_document_try(s, doc) ==
    IF doc.recompute = "raises" THEN Raise(s, "Exception", "recompute")
    ELSE IF Len(doc.Objects) = 0 THEN [s EXCEPT !.ret = FALSE]
    ELSE check_each_object(s, doc.Objects)

\* validate_document without its except clause
validate_document_checks_propagating(s, doc) == validate_document_try(s, doc)

validate_document_checks(s, doc) ==
    LET tried == validate_document_try(s, doc)
    IN  IF tried.exc # "none" THEN [s EXCEPT !.ret = FALSE] ELSE tried

(***************************************************************************)
(* models/operations: the numeric constraints of the operation schemas.    *)
(* Lengths are in tenths of a millimetre, angles in degrees.               *)
(***************************************************************************)
MIN_DIMENSION_MM == 1
MAX_DIMENSION_MM == 100000
MAX_ANGLE_DEGREES == 360

DimensionValues ==
    {0 - 1, 0, MIN_DIMENSION_MM, MIN_DIMENSION_MM + 1,
     MAX_DIMENSION_MM - 1, MAX_DIMENSION_MM, MAX_DIMENSION_MM + 1}
AngleValues == {0 - 1, 0, 1, MAX_ANGLE_DEGREES - 1, MAX_ANGLE_DEGREES, MAX_ANGLE_DEGREES + 1}

\* a dimension field accepting its range with the endpoints
dimension_field_inclusive(value) == MIN_DIMENSION_MM <= value /\ value <= MAX_DIMENSION_MM

\* Field(gt=MIN_DIMENSION_MM, lt=MAX_DIMENSION_MM)
dimension_field(value) == value > MIN_DIMENSION_MM /\ value < MAX_DIMENSION_MM

\* Field(gt=0, le=MAX_ANGLE_DEGREES)
angle_field(value) == value > 0 /\ value <= MAX_ANGLE_DEGREES

CreateCylinder(s, radius, height, angle) ==
    IF dimension_field(radius) /\ dimension_field(height) /\ angle_field(angle)
    THEN [s EXCEPT !.ret = [action |-> "create_cylinder",
                            radius |-> radius, height |-> height, angle |-> angle]]
    ELSE Raise(s, "ValidationError", "schema")

\* AddSketchCircle (radius), CreatePad, CreatePocket and CreateThread (length)
OneDimensionSchemas == {"add_sketch_circle", "create_pad", "create_pocket", "create_thread"}

OneDimensionOperation(s, action, value) ==
    IF dimension_field(value)
    THEN [s EXCEPT !.ret = [action |-> action, value |-> value]]
    ELSE Raise(s, "ValidationError", "schema")

validate_dimension(s, value) ==
    IF ~(MIN_DIMENSION_MM <= value /\ value <= MAX_DIMENSION_MM)
    THEN Raise(s, "ValueError", "ERROR_INVALID_DIMENSION")
    ELSE s

(***************************************************************************)
(* tools/cad_operations.py: the query tools.  A response is reduced to the *)
(* object names it carries.                                                *)
(***************************************************************************)
\* the names a request may carry: those of objects and two of no object
RequestNames == Names \cup {"X1", "X2"}

RECURSIVE details_loop_dropping_missing(_, _, _)
details_loop_dropping_missing(obj_by_name, names, response) ==
    IF names = <<>> THEN response
    ELSE IF Head(names) \notin obj_by_name
    THEN details_loop_dropping_missing(obj_by_name, Tail(names), response)
    ELSE details_loop_dropping_missing(obj_by_name, Tail(names),
             [response EXCEPT !.objects = Append(@, Head(names))])

\* the loop over the requested names; obj_by_name is the key set of the lookup
RECURSIVE details_loop(_, _, _)
details_loop(obj_by_name, names, response) ==
    IF names = <<>> THEN response
    ELSE IF Head(names) \notin obj_by_name
    THEN details_loop(obj_by_name, Tail(names),
             [response EXCEPT !.not_found = Append(@, Head(names))])
    ELSE details_loop(obj_by_name, Tail(names),
             [response EXCEPT !.objects = Append(@, Head(names))])

\* get_object_details leaving out the names it does not find
get_object_details_dropping_missing(s, names) ==
    LET g == get_active_document(s)
    IN  IF g.exc # "none" THEN g
        ELSE [s EXCEPT !.ret = details_loop_dropping_missing(
                                   Objects(s.docs[s.active].content), names,
                                   [objects |-> <<>>, not_found |-> <<>>])]

get_object_details(s, names) ==
    LET g == get_active_document(s)
    IN  IF g.exc # "none" THEN g
        ELSE [s EXCEPT !.ret = details_loop(Objects(s.docs[s.active].content), names,
                                            [objects |-> <<>>, not_found |-> <<>>])]

list_objects(s) ==
    LET g == get_active_document(s)
        summaries == Objects(s.docs[s.active].content)
    IN  IF g.exc # "none" THEN g
        ELSE [s EXCEPT !.ret = [count |-> Cardinality(summaries), objects |-> summaries]]

(***************************************************************************)
(* The pure functions called on their own: the initial state holds the     *)
(* arguments of one call, drawn from bounded sets, and the call is made.   *)
(***************************************************************************)
PureInputs ==
    [fn : {"validate_document"}, doc : KernelDocuments]
    \cup [fn : {"CreateCylinder"},
          radius : DimensionValues, height : DimensionValues, angle : AngleValues]
    \cup [fn : {"OneDimensionOperation"}, action : OneDimensionSchemas, value : DimensionValues]
    \cup [fn : {"validate_dimension"}, value : DimensionValues]
    \cup [fn : {"get_object_details"}, active : {0, 1}, content : Contents,
          names : SeqsOver(RequestNames, MaxNames)]
    \cup [fn : {"list_objects"}, active : {0, 1}, content : Contents]

\* the kernel documents a call finds: for a query tool, the active document
InputDocs(input) ==
    [i \in 1..MaxDocs |->
        IF input.fn \in {"get_object_details", "list_objects"} /\ i = input.active
        THEN [open |-> TRUE, file |-> NoPath, content |-> input.content]
        ELSE NoDoc]

InputActive(input) ==
    IF input.fn \in {"get_object_details", "list_objects"} THEN input.active ELSE 0

InitPure ==
    /\ fs = [p \in Files |-> NoFile]
    /\ wf_main = NoPath
    /\ wf_work = NoPath
    /\ wf_counter = 0
    /\ core_main = NoPath
    /\ core_work = NoPath
    /\ core_counter = 0
    /\ work_dir_env = None
    /\ commit = NoCommit
    /\ \E input \in PureInputs :
          /\ docs = InputDocs(input)
          /\ active = InputActive(input)
          /\ last = [op |-> "init", arg |-> input,
                     exc |-> "none", msg |-> None, result |-> None, wrote |-> {},
                     doc_changed |-> FALSE]

Called(fn) == last.op = "init" /\ last.arg.fn = fn

ValidateDocument ==
    /\ Called("validate_document")
    /\ Returned(validate_document_checks(Current(0, FALSE, FALSE), last.arg.doc),
                "validate_document", last.arg)

BuildCreateCylinder ==
    /\ Called("CreateCylinder")
    /\ Returned(CreateCylinder(Current(0, FALSE, FALSE),
                               last.arg.radius, last.arg.height, last.arg.angle),
                "CreateCylinder", last.arg)

BuildOneDimensionOperation ==
    /\ Called("OneDimensionOperation")
    /\ Returned(OneDimensionOperation(Current(0, FALSE, FALSE), last.arg.action, last.arg.value),
                "OneDimensionOperation", last.arg)

ValidateDimension ==
    /\ Called("validate_dimension")
    /\ Returned(validate_dimension(Current(0, FALSE, FALSE), last.arg.value),
                "validate_dimension", last.arg)

GetObjectDetails ==
    /\ Called("get_object_details")
    /\ Returned(get_object_details(Current(0, FALSE, FALSE), last.arg.names),
                "get_object_details", last.arg)

ListObjects ==
    /\ Called("list_objects")
    /\ Returned(list_objects(Current(0, FALSE, FALSE)), "list_objects", last.arg)

NextPure ==
    \/ ValidateDocument
    \/ BuildCreateCylinder
    \/ BuildOneDimensionOperation
    \/ ValidateDimension
    \/ GetObjectDetails
    \/ ListObjects

SpecPure == InitPure /\ [][NextPure]_vars

(***************************************************************************)
(* Properties                                                              *)
(***************************************************************************)
SessionRecorded == wf_main # NoPath /\ wf_work # NoPath

\* C1: a commit_changes called while validate_document is False for the
\* active document fails with the validation-failed condition, leaves every
\* file as it was and writes no file.
C1_FailedValidationWritesNothing ==
    [][ ( /\ last'.op = "commit_changes"
          /\ SessionRecorded
          /\ active # 0
          /\ ~validate_document(docs[active].content) )
        => ( /\ last'.exc = "RuntimeError"
             /\ last'.msg = "ERROR_VALIDATION_FAILED"
             /\ fs' = fs
             /\ last'.wrote = {} ) ]_vars

C1_Witness ==
    /\ last.op = "commit_changes"
    /\ last.msg = "ERROR_VALIDATION_FAILED"
    /\ SessionRecorded
    /\ fs[wf_main].state = "ok"
    /\ active # 0
    /\ docs[active].content # fs[wf_main].data

\* C2: the content of an existing canonical file changes only in a step that
\* is a successful commit_changes.
C2_CanonicalChangesOnlyByCommit ==
    [][ \A p \in CanonPaths :
          (fs[p] # NoFile /\ fs'[p] # fs[p])
          => (last'.op = "commit_changes" /\ last'.exc = "none") ]_vars

\* C3: a commit_changes that fails leaves the canonical file either entirely
\* its previous content or entirely the new content.
C3_FailedCommitNeverPartial ==
    [][ ( /\ last'.op = "commit_changes"
          /\ last'.exc # "none"
          /\ SessionRecorded
          /\ active # 0 )
        => ( \/ fs'[wf_main] = fs[wf_main]
             \/ fs'[wf_main] = FileOf(docs[active].content) ) ]_vars

\* C4: after a successful commit_changes the canonical file equals the
\* working file and both hold the in-kernel document of the time of the
\* call, a document validate_document accepts.
C4_CommitPublishesKernelState ==
    [][ (last'.op = "commit_changes" /\ last'.exc = "none")
        => ( /\ active # 0
             /\ validate_document(docs[active].content)
             /\ fs'[wf_main] = FileOf(docs[active].content)
             /\ fs'[wf_work] = FileOf(docs[active].content) ) ]_vars

\* C5: after a successful rollback_working_changes, get_document_info
\* reports exactly the object set stored in the canonical file and the
\* working file equals the canonical file.
C5_RollbackRestoresCommitted ==
    (last.op = "rollback_working_changes" /\ last.exc = "none")
    => ( /\ get_document_info(Current(0, FALSE, FALSE)).exc = "none"
         /\ get_document_info(Current(0, FALSE, FALSE)).ret = Objects(fs[wf_main].data)
         /\ fs[wf_main].state = "ok"
         /\ fs[wf_work] = fs[wf_main] )

C5_Witness ==
    /\ last.op = "rollback_working_changes"
    /\ last.exc = "none"
    /\ last.doc_changed
    /\ core_counter > 0

\* C6: a second setup of the working file for the canonical path of the
\* recorded session leaves an existing valid working file unchanged, so
\* open_document resumes the uncommitted working copy.
C6_SecondSetupKeepsWorkingFile ==
    [][ ( /\ last'.op = "open_document"
          /\ last'.exc = "none"
          /\ wf_main' = wf_main
          /\ fs[wf_work].state = "ok" )
        => ( /\ wf_work' = wf_work
             /\ fs'[wf_work] = fs[wf_work] ) ]_vars

\* C7: opening the currently open canonical document again keeps, in the
\* active document, the mutation the preceding successful operation applied.
C7_ReopenKeepsMutations ==
    [][ ( /\ last.op = "execute_operation"
          /\ last.result.success
          /\ SessionRecorded
          /\ last'.op = "open_document"
          /\ last'.exc = "none"
          /\ wf_main' = wf_main )
        => ( /\ active' # 0
             /\ docs'[active'].content.kind[last.result.affected_object] = docs[active].content.kind[last.result.affected_object]
             /\ docs'[active'].content.geo[last.result.affected_object] = docs[active].content.geo[last.result.affected_object] )
      ]_vars

\* C8: a call of a mutating operation whose post-increment operation count
\* is a multiple of AUTO_SAVE_INTERVAL saves the working file, which then
\* reflects the active document.
C8_AutoSaveAtInterval ==
    [][ ( /\ last'.op = "execute_operation"
          /\ SessionRecorded
          /\ active # 0
          /\ docs[active].file = wf_work
          /\ core_counter' % AUTO_SAVE_INTERVAL = 0 )
        => fs'[wf_work] = FileOf(docs'[active'].content) ]_vars

\* C9: every call of execute_operation increments the operation counter of
\* the auto-save hook exactly once, whatever result it returns.
C9_CounterIncrementsOncePerCall ==
    [][ last'.op = "execute_operation" => core_counter' = core_counter + 1 ]_vars

C9_Witness ==
    /\ last.op = "execute_operation"
    /\ ~last.result.success
    /\ last.result.error_type = "geometry"
    /\ core_counter = 2

\* C10: right after a successful open_document, create_document or
\* rollback_working_changes the operation counter the auto-save hook
\* advances is 0.
C10_CounterZeroAfterReset ==
    ( /\ last.op \in {"open_document", "create_document", "rollback_working_changes"}
      /\ last.exc = "none" )
    => core_counter = 0

\* C11: commit_changes, whether it returns or raises, leaves both operation
\* counters as they were.
C11_CommitKeepsCounter ==
    \A f \in Faults(2) :
        LET r == commit_changes(Current(f[1], f[2], FALSE))
        IN  /\ r.core_counter = core_counter
            /\ r.wf_counter = wf_counter

C11_Witness ==
    /\ last.op = "commit_changes"
    /\ last.exc = "none"
    /\ core_counter > 0

\* C12: execute_operation never raises: an exception of document
\* resolution, of the handler or of the recompute becomes a result with
\* success false, a ValueError with error_type validation and any other
\* exception with error_type runtime.
C12_ExecuteOperationNeverRaises ==
    \A a \in ToolActions, n \in Names :
      \A kout \in HandlerOutcomes(a), f \in SaveFaults :
        LET s == Current(f[1], f[2], FALSE)
            operation == [action |-> a, name |-> n]
            r == execute_operation(s, operation, kout)
        IN  /\ r.exc = "none"
            /\ get_active_document(s).exc # "none"
                   => (~r.ret.success /\ r.ret.error_type = "runtime")
            /\ (active # 0 /\ a \in OPERATION_HANDLERS)
                   => LET h == handler(s, operation, kout)
                      IN  /\ h.exc = "ValueError"
                                 => (~r.ret.success /\ r.ret.error_type = "validation")
                          /\ h.exc \notin {"none", "ValueError"}
                                 => (~r.ret.success /\ r.ret.error_type = "runtime")

C12_Witness ==
    /\ last.op = "execute_operation"
    /\ last.exc = "none"
    /\ last.result.error_type = "runtime"
    /\ last.result.message = "kernel"
    /\ last.doc_changed

\* C13: when the save of the auto-save raises, execute_operation still
\* returns the result the operation produced, raises nothing, leaves the
\* document as the operation left it and keeps the counter incremented.
C13_AutoSaveFailureSwallowed ==
    \A a \in ToolActions, n \in Names, partial \in BOOLEAN :
      \A kout \in HandlerOutcomes(a) :
        ( /\ active # 0
          /\ core_work # NoPath
          /\ (core_counter + 1) % AUTO_SAVE_INTERVAL = 0 )
        => LET operation == [action |-> a, name |-> n]
               r == execute_operation(Current(1, partial, FALSE), operation, kout)
               produced == execute_operation_inner(Current(0, FALSE, FALSE), operation, kout)
           IN  /\ r.exc = "none"
               /\ r.ret = produced.ret
               /\ r.docs = produced.docs
               /\ r.core_counter = core_counter + 1

C13_Witness ==
    /\ last.op = "execute_operation"
    /\ last.result.success
    /\ core_work # NoPath
    /\ active # 0
    /\ docs[active].file # NoPath
    /\ fs[docs[active].file].state = "partial"
    /\ core_counter > 0

\* C14: a tool call whose arguments violate a schema constraint returns a
\* result with error_type validation, raises nothing, and leaves the
\* documents and the files as they were.
C14_SchemaViolationIsValidationResult ==
    [][ last'.op = "execution_tool"
        => ( /\ last'.exc = "none"
             /\ ~last'.result.success
             /\ last'.result.error_type = "validation"
             /\ docs' = docs
             /\ fs' = fs ) ]_vars

\* C15: every result of execute_operation has success true exactly when
\* error_type is unset; a failure carries one of validation, runtime,
\* geometry; a success carries the name of the object the operation targeted.
C15_ResultShape ==
    \A a \in ToolActions, n \in Names :
      \A kout \in HandlerOutcomes(a), f \in SaveFaults :
        LET r == execute_operation(Current(f[1], f[2], FALSE),
                                   [action |-> a, name |-> n], kout).ret
        IN  /\ r.success <=> r.error_type = None
            /\ ~r.success => r.error_type \in {"validation", "runtime", "geometry"}
            /\ r.success => r.affected_object = n

C15_Witness ==
    /\ last.op = "execute_operation"
    /\ last.result.success
    /\ last.result.error_type = None
    /\ last.result.affected_object = "S1"
    /\ active # 0
    /\ docs[active].content.kind["S1"] = "Cylinder"

\* C16: without an active document execute_operation returns error_type
\* runtime with the no-active-document message for every operation kind,
\* registered or not; with an active document a kind without a handler gets
\* error_type validation and the document is left as it was.
C16_DocumentResolvedBeforeHandlerLookup ==
    \A a \in ToolActions, n \in Names :
      \A kout \in HandlerOutcomes(a) :
        LET r == execute_operation(Current(0, FALSE, FALSE),
                                   [action |-> a, name |-> n], kout)
        IN  /\ active = 0
                   => ( /\ ~r.ret.success
                        /\ r.ret.error_type = "runtime"
                        /\ r.ret.message = "ERROR_NO_ACTIVE_DOC" )
            /\ (active # 0 /\ a \notin OPERATION_HANDLERS)
                   => ( /\ ~r.ret.success
                        /\ r.ret.error_type = "validation"
                        /\ r.ret.message = "Unknown operation"
                        /\ r.docs = docs )

C16_Witness ==
    /\ last.op = "execute_operation"
    /\ last.result.error_type = "validation"
    /\ last.result.message = "Unknown operation"
    /\ active # 0
    /\ Objects(docs[active].content) # {}

\* C17: when the handler returns without raising and validate_document then
\* rejects the document, execute_operation returns error_type geometry and
\* the kernel document keeps the handler's mutation.
C17_GeometryFailureKeepsMutation ==
    /\ \A a \in OPERATION_HANDLERS, n \in Names, kout \in KernelOutcomes :
          active # 0
          => LET s == Current(0, FALSE, FALSE)
                 operation == [action |-> a, name |-> n]
                 h == handler(s, operation, kout)
                 r == execute_operation(s, operation, kout)
             IN  (h.exc = "none" /\ ~validate_document(h.docs[h.active].content))
                 => ( /\ ~r.ret.success
                      /\ r.ret.error_type = "geometry"
                      /\ r.docs = h.docs
                      /\ r.active = h.active )
    /\ (last.op = "execute_operation" /\ last.result.error_type = "geometry")
          => (active # 0 /\ ~validate_document(docs[active].content))

C17_Witness ==
    /\ last.op = "execute_operation"
    /\ last.result.error_type = "geometry"
    /\ last.doc_changed
    /\ active # 0
    /\ docs[active].content.bad # {}

C19_EveryToolKindRouted ==
    [][ (last'.op = "execute_operation" /\ active # 0)
        => last'.result.message # "Unknown operation" ]_vars

\* C20: commit_changes on an active document without objects raises the
\* validation-failed condition and leaves the canonical file as it was.
C20_EmptyDocumentNotCommitted ==
    \A f \in Faults(2) :
        ( /\ SessionRecorded
          /\ active # 0
          /\ Objects(docs[active].content) = {} )
        => LET r == commit_changes(Current(f[1], f[2], FALSE))
           IN  /\ r.exc = "RuntimeError"
               /\ r.msg = "ERROR_VALIDATION_FAILED"
               /\ r.fs[wf_main] = fs[wf_main]

C20_Witness ==
    /\ last.op = "commit_changes"
    /\ last.msg = "ERROR_VALIDATION_FAILED"
    /\ SessionRecorded
    /\ active # 0
    /\ Objects(docs[active].content) = {}
    /\ fs[wf_main] = FileOf(Blank)
    /\ docs[active].file = wf_work

\* C21: commit_changes and rollback_working_changes called while no session
\* is recorded raise the no-open-document condition and change no file, no
\* kernel document, no session path and no operation counter.
C21_NoSessionChangesNothing ==
    ~SessionRecorded
    => \A f \in Faults(2) :
         LET s == Current(f[1], f[2], FALSE)
             Unchanged(r) ==
                 /\ r.exc = "RuntimeError"
                 /\ r.msg = "ERROR_NO_OPEN_DOC"
                 /\ r.fs = fs
                 /\ r.docs = docs
                 /\ r.active = active
                 /\ r.wf_main = wf_main
                 /\ r.wf_work = wf_work
                 /\ r.wf_counter = wf_counter
                 /\ r.core_counter = core_counter
         IN  /\ Unchanged(commit_changes(s))
             /\ Unchanged(rollback_working_changes(s))

C21_Witness ==
    /\ last.op = "commit_changes"
    /\ last.exc = "RuntimeError"
    /\ last.msg = "ERROR_NO_OPEN_DOC"
    /\ ~SessionRecorded
    /\ active # 0
    /\ docs[active].file # NoPath
    /\ core_counter > 0

\* C22: open_document on a path without a canonical file raises the
\* file-not-found condition and leaves the session paths, the counters, the
\* kernel documents and every file as they were.
C22_OpenMissingFileChangesNothing ==
    \A path \in CanonPaths, f \in Faults(1) :
        fs[path] = NoFile
        => LET r == open_document(Current(f[1], f[2], FALSE), path)
           IN  /\ r.exc = "FileNotFoundError"
               /\ r.msg = "ERROR_FILE_NOT_FOUND"
               /\ r.fs = fs
               /\ r.docs = docs
               /\ r.active = active
               /\ r.wf_main = wf_main
               /\ r.wf_work = wf_work
               /\ r.wf_counter = wf_counter
               /\ r.core_counter = core_counter

C22_Witness ==
    /\ last.op = "open_document"
    /\ last.exc = "FileNotFoundError"
    /\ SessionRecorded
    /\ active # 0
    /\ Objects(docs[active].content) # {}
    /\ core_counter > 0

\* C24: open_document and create_document reject a path outside the
\* projects directory before anything is touched: no step records a
\* session on such a path or changes a file outside the projects directory.
C24_PathsOutsideSandboxRejected ==
    [][ last'.op \in {"open_document", "create_document"}
        => ( /\ \A p \in CanonPaths : ~InProjectsDir(p) => fs'[p] = fs[p]
             /\ wf_main' # wf_main => InProjectsDir(wf_main') ) ]_vars

\* C26: at most one document is open in the kernel and at most one pair of
\* session paths is recorded, the two paths being set together; after a
\* successful open_document or create_document the one open document is
\* the active one.
C26_SingleActiveDocument ==
    /\ Cardinality({ i \in 1..MaxDocs : docs[i].open }) <= 1
    /\ (wf_main = NoPath) <=> (wf_work = NoPath)
    /\ active # 0 => docs[active].open
    /\ (last.op \in {"open_document", "create_document"} /\ last.exc = "none")
          => { i \in 1..MaxDocs : docs[i].open } = {active}

C26_Witness ==
    /\ last.op = "open_document"
    /\ last.exc = "none"
    /\ wf_main = ExistingPath
    /\ fs[[dir |-> "d2", name |-> <<"a", ".FCStd">>]].state = "ok"
    /\ fs[get_work_file_path([dir |-> "d2", name |-> <<"a", ".FCStd">>], work_dir_env)].state = "ok"
    /\ Cardinality({ i \in 1..MaxDocs : docs[i].open }) = 1

\* C27: a successful create_document on a path whose working file is a
\* valid document leaves that working file unchanged and makes its content
\* the active document.
C27_CreateResumesWorkingFile ==
    [][ ( /\ last'.op = "create_document"
          /\ last'.exc = "none"
          /\ fs[wf_work'].state = "ok" )
        => ( /\ fs'[wf_work'] = fs[wf_work']
             /\ active' # 0
             /\ docs'[active'].content = fs[wf_work'].data ) ]_vars

\* C28: in commit_changes the save of the working document comes before
\* the validation and the copy comes last: a commit that fails validation
\* has saved the working document, and the canonical file is only written
\* for a document that passed validation and was saved.
C28_SaveThenValidateThenCopy ==
    [][ ( /\ last'.op = "commit_changes"
          /\ SessionRecorded
          /\ active # 0
          /\ docs[active].file = wf_work )
        => ( /\ last'.msg = "ERROR_VALIDATION_FAILED" => wf_work \in last'.wrote
             /\ wf_main \in last'.wrote
                  => ( /\ validate_document(docs[active].content)
                       /\ fs'[wf_work] = FileOf(docs[active].content) ) ) ]_vars

IsWithin(path, base) ==
    Len(base) <= Len(path) /\ SubSeq(path, 1, Len(base)) = base

\* C23: resolve_project_path raises for every absolute path and for every
\* relative path that resolves outside the projects directory; every path
\* it returns is the projects directory or a descendant of it.
C23_ResolvedPathsStayInSandbox ==
    last.op = "resolve_project_path"
    => ( /\ is_absolute(last.arg) => last.exc = "ValueError"
         /\ ~IsWithin(resolve(default_dir, last.arg.parts), default_dir)
                => last.exc = "ValueError"
         /\ last.exc = "none" => IsWithin(last.result, default_dir) )

\* C25: get_work_file_path returns the same path for the same arguments,
\* named stem + suffix + extension of the canonical file, in the canonical
\* file's directory or in the override work directory when one is set.
C25_WorkPathShape ==
    last.op \in {"get_work_file_path", "core.get_work_file_path"}
    => ( /\ last.result.name = Stem(last.arg.main.name) \o <<WORK_FILE_SUFFIX>>
                                   \o Suffix(last.arg.main.name)
         /\ last.result.dir = ( CASE last.arg.work_dir = None   -> last.arg.main.dir
                                  [] last.arg.work_dir = "temp" -> "tmp/adam_mcp_work"
                                  [] OTHER                      -> last.arg.work_dir )
         /\ last.op = "get_work_file_path"
                => last.result = get_work_file_path(last.arg.main, last.arg.work_dir)
         /\ last.op = "core.get_work_file_path"
                => last.result = core_get_work_file_path(last.arg.main, last.arg.work_dir) )

\* C29: an operation that returns error_type geometry leaves every file on
\* disk as it was: the auto-save that follows it does not save the document
\* that failed validation.
C29_GeometryFailureNotPersisted ==
    \A a \in OPERATION_HANDLERS, n \in Names, kout \in KernelOutcomes :
        LET r == execute_operation(Current(0, FALSE, FALSE), [action |-> a, name |-> n], kout)
        IN  r.ret.error_type = "geometry" => r.fs = fs

\* C30: when the working file exists and the kernel cannot open it, a
\* setup_working_file that returns has deleted it: the working path then
\* holds an exact copy of the canonical file if that exists, and no file
\* otherwise.
C30_CorruptWorkingFileReplaced ==
    \A f \in Faults(1), reuse \in BOOLEAN :
        LET s == [Current(f[1], f[2], FALSE) EXCEPT !.reuse = reuse]
        IN  ( /\ LibWork \in DOMAIN fs
              /\ fs[LibWork].state = "partial"
              /\ ~is_valid_freecad_file(s, LibWork).ret )
        => LET r == core_setup_working_file(s, LibMain)
           IN  r.exc = "none"
               => ( /\ r.ret = LibWork
                    /\ r.fs[LibWork] = fs[LibMain]
                    /\ r.docs = docs
                    /\ r.active = active )

C30_Witness ==
    /\ last.op = "core.setup_working_file"
    /\ last.exc = "none"
    /\ last.arg.before.state = "partial"
    /\ last.result = LibWork
    /\ fs[LibWork] = fs[LibMain]
    /\ fs[LibWork].state = "ok"

\* C31: the validity probe leaves the kernel's open documents and its active
\* document as they were, whether it returns True or False, also when the
\* probed file is the file of the active document.
C31_ProbeLeavesKernelAsItWas ==
    \A reuse \in BOOLEAN :
        LibWork \in DOMAIN fs
        => LET r == is_valid_freecad_file([Current(0, FALSE, FALSE) EXCEPT !.reuse = reuse],
                                          LibWork)
           IN  r.docs = docs /\ r.active = active

\* C32: validate_document returns True exactly when the recompute raises
\* nothing, the document has at least one object, no object reports an
\* Invalid state and every object exposing a shape reports it valid; when a
\* check raises it returns False and the exception does not leave it.
C32_ValidateDocumentFailsClosed ==
    last.op = "validate_document"
    => LET doc == last.arg.doc
       IN  /\ last.exc = "none"
           /\ last.result \in BOOLEAN
           /\ last.result
                <=> ( /\ doc.recompute = "ok"
                      /\ Len(doc.Objects) >= 1
                      /\ \A i \in 1..Len(doc.Objects) :
                            /\ doc.Objects[i].state # "Invalid"
                            /\ doc.Objects[i].shape \in {"absent", "falsy", "valid"} )

C32_Witness ==
    /\ last.op = "validate_document"
    /\ last.exc = "none"
    /\ last.result = FALSE
    /\ last.arg.doc.recompute = "ok"
    /\ Len(last.arg.doc.Objects) = MaxObjs
    /\ \A i \in 1..Len(last.arg.doc.Objects) :
          last.arg.doc.Objects[i] = [state |-> "ok", shape |-> IF i = 1 THEN "valid" ELSE "raises"]

C40_QueriesPartitionTheRequest ==
    /\ (last.op = "get_object_details" /\ active # 0)
         => LET Exists(n) == n \in Objects(docs[active].content)
                Missing(n) == ~Exists(n)
            IN  /\ last.exc = "none"
                /\ last.result.objects = SelectSeq(last.arg.names, Exists)
                /\ last.result.not_found = SelectSeq(last.arg.names, Missing)
    /\ (last.op = "list_objects" /\ active # 0)
         => /\ last.exc = "none"
            /\ last.result.count = Cardinality(Objects(docs[active].content))
            /\ last.result.count = Cardinality(DocumentInfo(Current(0, FALSE, FALSE)).ret)
    /\ \A objs \in SUBSET RequestNames, names \in SeqsOver(RequestNames, MaxNames) :
          LET r == details_loop(objs, names, [objects |-> <<>>, not_found |-> <<>>])
              Exists(n) == n \in objs
              Missing(n) == n \notin objs
          IN  /\ r.objects = SelectSeq(names, Exists)
              /\ r.not_found = SelectSeq(names, Missing)
              /\ Len(r.objects) + Len(r.not_found) = Len(names)

C40_Witness ==
    /\ last.op = "get_object_details"
    /\ last.exc = "none"
    /\ active # 0
    /\ Len(last.arg.names) = MaxNames
    /\ last.result.objects = <<"S1">>
    /\ last.result.not_found # <<>>
    /\ last.arg.names[1] = last.result.not_found[1]

\* C37: whenever a session is recorded and a kernel document is active, the
\* active document is bound to the working path of the session, so a save
\* of it writes the file commit_changes copies to the canonical path.
C37_ActiveDocumentIsSessionDocument ==
    (SessionRecorded /\ active # 0) => docs[active].file = wf_work

\* C38: an open_document that fails after its file-exists check leaves the
\* session paths, the operation counter and the active kernel document as
\* they were before the call.
C38_FailedOpenKeepsSession ==
    \A path \in CanonPaths, f \in Faults(1) :
        LET r == open_document(Current(f[1], f[2], FALSE), path)
        IN  (fs[path] # NoFile /\ r.exc # "none")
            => ( /\ r.wf_main = wf_main
                 /\ r.wf_work = wf_work
                 /\ r.wf_counter = wf_counter
                 /\ r.active = active
                 /\ r.docs = docs )

\* C36: in every configuration of the work directory two different
\* canonical paths derive different working paths, and no derived working
\* path is itself a canonical path.
C36_WorkingPathsDistinct ==
    last.op = "core.get_work_file_path"
    => \A q \in LibMainPaths :
         /\ q # last.arg.main
              => core_get_work_file_path(q, last.arg.work_dir) # last.result
         /\ last.result # q

\* C39: when a mutating operation runs while commit_changes is running, a
\* commit that succeeds has copied to the canonical file exactly the
\* document its validation accepted: no mutation takes effect between the
\* validation and the save and copy.
C39_CommitCopiesValidatedState ==
    /\ commit.at \in {"validated", "saved"}
         => docs[commit.doc].content = commit.validated
    /\ (last.op = "commit_changes" /\ last.exc = "none" /\ commit.main # NoPath)
         => fs[commit.main] = FileOf(commit.validated)

IsPrefix(x, y) == Len(x) <= Len(y) /\ SubSeq(y, 1, Len(x)) = x

Entered(r, stage) == \E i \in 1..Len(r.stages) : r.stages[i] = stage

\* C33: one call of execute_operation enters its stages in the order
\* semantic check, mutation, post-execution validation, each at most once
\* and none again after a failure; it returns success only when it has
\* been through all three, the handler returned normally and
\* validate_document holds of the document the handler left.
C33_StagesInOrderOnce ==
    \A a \in ToolActions, n \in Names, kout \in KernelOutcomes :
        LET s == Current(0, FALSE, FALSE)
            operation == [action |-> a, name |-> n]
            r == execute_operation_inner(s, operation, kout)
        IN  /\ IsPrefix(r.stages, <<"semantic_check", "mutation", "validation">>)
            /\ r.ret.success
                 => /\ r.stages = <<"semantic_check", "mutation", "validation">>
                    /\ handler(s, operation, kout).exc = "none"
                    /\ r.docs = handler(s, operation, kout).docs
                    /\ validate_document(r.docs[r.active].content)
            /\ (active # 0 /\ a \in OPERATION_HANDLERS)
                 => /\ r.stages # <<>>
                    /\ Entered(r, "mutation")
                         => r.ret.error_type # "validation"
                    /\ Entered(r, "validation")
                         <=> r.ret.error_type \in {None, "geometry"}

C33_Witness ==
    /\ last.op = "execute_operation"
    /\ last.exc = "none"
    /\ last.result.error_type = "runtime"
    /\ last.doc_changed
    /\ \E a \in OPERATION_HANDLERS, n \in Names :
          /\ execute_operation_inner(Current(0, FALSE, FALSE),
                                     [action |-> a, name |-> n], "ok").ret.success
          /\ execute_operation_inner(Current(0, FALSE, FALSE),
                                     [action |-> a, name |-> n], "raise_after").stages
                = <<"semantic_check", "mutation">>

\* C35: an operation that execute_operation answers with error_type
\* validation (name taken, referenced sketch missing or not a sketch, kind
\* without a handler) has not entered the mutation stage and leaves the
\* kernel's documents, their objects and properties, as they were.
C35_ValidationRejectionChangesNothing ==
    /\ \A a \in ToolActions, n \in Names, kout \in KernelOutcomes, f \in SaveFaults :
          LET s == Current(f[1], f[2], FALSE)
              operation == [action |-> a, name |-> n]
              inner == execute_operation_inner(s, operation, kout)
              r == execute_operation(s, operation, kout)
          IN  r.ret.error_type = "validation"
              => ( /\ ~Entered(inner, "mutation")
                   /\ r.docs = docs
                   /\ r.active = active )
    /\ (last.op = "execute_operation" /\ last.result.error_type = "validation")
          => ~last.doc_changed

C35_Witness ==
    /\ last.op = "execute_operation"
    /\ last.result.error_type = "validation"
    /\ last.result.message = "not a sketch"
    /\ ~last.doc_changed
    /\ active # 0
    /\ docs[active].content.kind["S1"] = "Cylinder"

====
